---- MODULE Spec2Model ----
(***************************************************************************)
(* Model of the comebacksunday backend (Django / Django REST framework):   *)
(* the Follow / FollowRequest tables and the request handlers that change  *)
(* them, the Post table with the weekly "global Sunday" gate, and the      *)
(* access decisions (querysets and object permissions) derived from them.  *)
(*                                                                         *)
(* Requests are served concurrently by worker threads.  The source opens   *)
(* no transaction (there is no transaction.atomic anywhere) and Django's   *)
(* default is to commit every statement on its own, so an action of this   *)
(* model is one ORM call together with the Python code of the handler      *)
(* around it.  Every actor is a logged-in user (IsAuthenticated comes      *)
(* first in every permission_classes) and every request body is valid.     *)
(***************************************************************************)
EXTENDS Integers, Sequences, FiniteSets, TLC

\* ---------------------------------------------------------------- bounds
MaxProcs == 2      \* requests being served at the same time
MaxPairs == 2      \* ordered pairs that have a Follow or FollowRequest row
MaxPosts == 2      \* Post rows ever inserted (auto-increment ids 1..MaxPosts)
MaxTicks == 2      \* seconds the clock advances during a run

\* Two users, each with a profile (an ExtendedUser row) until it is deleted.
\* Handlers take an actor and an ordered pair; with the pairs (u, u) every handler
\* also meets an actor who is neither the follower nor the followee of the pair.
Users == 1 .. 2
Procs == 1 .. MaxProcs
Pairs == Users \X Users

\* ------------------------------------------------------ program constants
HTTP_200_OK == 200
HTTP_201_CREATED == 201
HTTP_204_NO_CONTENT == 204
HTTP_401_UNAUTHORIZED == 401
HTTP_403_FORBIDDEN == 403
HTTP_404_NOT_FOUND == 404
HTTP_500_INTERNAL_SERVER_ERROR == 500

SUNDAY == 7
KIRIBATI_OFFSET == 14
IDLW_OFFSET == 0 - 12
SecondsPerHour == 3600
SecondsPerMinute == 60
MinutesPerHour == 60
SecondsPerDay == 86400
DaysPerWeek == 7

Contents == {"c1"}

VARIABLES
    follows,     \* table Follow: set of <<follower, followee>> (composite pk)
    requests,    \* table FollowRequest: set of <<follower, followee>>
    posts,       \* table Post: set of [id, author, content, datetime]
    nextId,      \* next auto-increment id of table Post
    now,         \* wall clock, seconds since a Monday 00:00:00 UTC
    ticks,       \* seconds elapsed since the start of the run
    procs,       \* procs[p]: the request worker p is serving, and where it is
    profiles     \* table ExtendedUser: the users whose profile is stored

vars == <<follows, requests, posts, nextId, now, ticks, procs, profiles>>

Idle ==
    [op |-> "idle", pc |-> "idle", actor |-> 0, follower |-> 0, followee |-> 0,
     post |-> 0, content |-> "", kiribati_day |-> 0, kiribati_now |-> 0, since |-> 0,
     target |-> 0, status |-> 0, error |-> "none", data |-> <<>>]

\* worker p starts serving a request of `actor`
Serve(op, pc, actor) == [Idle EXCEPT !.op = op, !.pc = pc, !.actor = actor]

\* worker p sends its response; the slot keeps it until Return(p)
Respond(p, status, error) ==
    [procs EXCEPT ![p].pc = "done", ![p].status = status, ![p].error = error]

\* the same for the handlers of PostViewSet, whose locals are dropped
RespondPost(p, status, error) ==
    [procs EXCEPT ![p] = [Serve(procs[p].op, "done", procs[p].actor)
                            EXCEPT !.status = status, !.error = error]]

\* ------------------------------------------------------------ querysets
\* FollowRequestViewSet.get_queryset giving `accept` the rows of `retrieve`
FollowRequestViewSet_get_queryset_parties(action, current_user) ==
    CASE action = "list" -> {r \in requests : r[2] = current_user}
      [] action \in {"retrieve", "destroy", "accept"} ->
            {r \in requests : r[1] = current_user \/ r[2] = current_user}
      [] OTHER -> {}

\* FollowRequestViewSet.get_queryset: the rows the action may look up
FollowRequestViewSet_get_queryset(action, current_user) ==
    CASE action = "list" -> {r \in requests : r[2] = current_user}
      [] action = "create" -> {}
      [] action \in {"retrieve", "destroy"} ->
            {r \in requests : r[1] = current_user \/ r[2] = current_user}
      [] action = "accept" -> {r \in requests : r[2] = current_user}
      [] OTHER -> {}

\* FollowingViewSet.get_queryset without its filter
FollowingViewSet_get_queryset_all(current_user) == follows

\* FollowingViewSet.get_queryset
FollowingViewSet_get_queryset(current_user) == {f \in follows : f[1] = current_user}

\* FollowersViewSet.get_queryset without its filter
FollowersViewSet_get_queryset_all(current_user) == follows

\* FollowersViewSet.get_queryset
FollowersViewSet_get_queryset(current_user) == {f \in follows : f[2] = current_user}

\* get_object of FollowViewSet and FollowRequestViewSet: get_object_or_404 on the
\* queryset; it does not call check_object_permissions
get_object(queryset, follower_id, followee_id) ==
    IF <<follower_id, followee_id>> \in queryset
    THEN <<follower_id, followee_id>> ELSE <<>>

\* FollowRequestPermission.has_object_permission (the actor is authenticated);
\* obj is the row <<follower, followee>>.  The get_object above never asks it.
FollowRequestPermission_has_object_permission(current_user, action, obj) ==
    CASE action \in {"retrieve", "destroy"} -> current_user = obj[1] \/ current_user = obj[2]
      [] action = "accept" -> current_user = obj[2]
      [] OTHER -> FALSE

\* FollowPermission.has_object_permission (the actor is authenticated); obj is
\* the row <<follower, followee>>.  The get_object above never asks it.
FollowPermission_has_object_permission(current_user, action, obj) ==
    CASE action \in {"retrieve", "destroy"} -> current_user = obj[1] \/ current_user = obj[2]
      [] OTHER -> FALSE

\* FollowRequestViewSet finds the request for the action (retrieve, destroy or
\* accept): get_object() returns it instead of raising Http404
FollowRequestViewSet_allowed(current_user, action, follower_id, followee_id) ==
    get_object(FollowRequestViewSet_get_queryset(action, current_user),
               follower_id, followee_id) # <<>>

\* the foreign keys follower and followee of a Follow or FollowRequest row:
\* the database takes the row only if both profiles are stored
ForeignKeys(pair) == {pair[1], pair[2]} \subseteq profiles

\* the row bound MaxPairs: a new pair may get a row only while fewer are in use
RoomFor(pair) ==
    \/ pair \in follows \cup requests
    \/ Cardinality(follows \cup requests) < MaxPairs

\* --------------------------------------- FollowRequestViewSet.create
\* create_status with the `except AlreadyRequestedException` clause left out
create_status_uncaught(error) ==
    CASE error = "none" -> HTTP_201_CREATED
      [] error = "AlreadyFollowing" -> HTTP_200_OK
      [] OTHER -> HTTP_500_INTERNAL_SERVER_ERROR

\* The response of FollowRequestViewSet.create for the exception (if any) that
\* FollowService.create_request raised; an exception it does not catch is a 500.
create_status(error) ==
    CASE error = "none" -> HTTP_201_CREATED
      [] error = "AlreadyFollowing" -> HTTP_200_OK
      [] error = "AlreadyRequested" -> HTTP_200_OK
      [] OTHER -> HTTP_500_INTERNAL_SERVER_ERROR

\* FollowRequestViewSet.create without `if follow.follower == current_user`
FollowRequestViewSet_create_unchecked(p, actor, follower, followee) ==
    /\ procs[p].pc = "idle"
    /\ {actor, follower, followee} \subseteq profiles
    /\ LET me == [Serve("create_request", "check_request", actor)
                    EXCEPT !.follower = follower, !.followee = followee]
           started == [procs EXCEPT ![p] = me]
       IN  procs' =
             IF <<follower, followee>> \in follows
             THEN [started EXCEPT ![p].pc = "done",
                                  ![p].status = create_status("AlreadyFollowing"),
                                  ![p].error = "AlreadyFollowing"]
             ELSE started
    /\ UNCHANGED <<follows, requests, posts, nextId, now, ticks, profiles>>

\* create up to the first query of FollowService.create_request:
\* Follow.objects.filter(...).exists().  The serializer (FollowRequestSerializer,
\* imported by the views but not defined in serializers.py) is taken to accept
\* any two stored profiles as follower and followee, like FollowSerializer.
FollowRequestViewSet_create(p, actor, follower, followee) ==
    /\ procs[p].pc = "idle"
    /\ {actor, follower, followee} \subseteq profiles
    /\ LET me == [Serve("create_request", "check_request", actor)
                    EXCEPT !.follower = follower, !.followee = followee]
           started == [procs EXCEPT ![p] = me]
       IN  procs' =
             IF follower # actor
             THEN [started EXCEPT ![p].pc = "done", ![p].status = HTTP_401_UNAUTHORIZED]
             ELSE IF <<follower, followee>> \in follows
             THEN [started EXCEPT ![p].pc = "done",
                                  ![p].status = create_status("AlreadyFollowing"),
                                  ![p].error = "AlreadyFollowing"]
             ELSE started
    /\ UNCHANGED <<follows, requests, posts, nextId, now, ticks, profiles>>

\* FollowRequest.objects.filter(...).exists()
create_request_check_request(p) ==
    /\ procs[p].op = "create_request"
    /\ procs[p].pc = "check_request"
    /\ procs' =
         IF <<procs[p].follower, procs[p].followee>> \in requests
         THEN Respond(p, create_status("AlreadyRequested"), "AlreadyRequested")
         ELSE [procs EXCEPT ![p].pc = "insert"]
    /\ UNCHANGED <<follows, requests, posts, nextId, now, ticks, profiles>>

\* create_request storing a Follow at once, with no request to accept
create_request_insert_follow(p) ==
    /\ procs[p].op = "create_request"
    /\ procs[p].pc = "insert"
    /\ LET pair == <<procs[p].follower, procs[p].followee>>
       IN  /\ RoomFor(pair)
           /\ follows' = follows \cup {pair}
           /\ procs' = Respond(p, create_status("none"), "none")
    /\ UNCHANGED <<requests, posts, nextId, now, ticks, profiles>>

\* FollowRequest.objects.create(...): an INSERT; the composite primary key
\* rejects a second row for the pair, and the foreign keys a row of a deleted
\* profile, with an IntegrityError nobody catches
create_request_insert(p) ==
    /\ procs[p].op = "create_request"
    /\ procs[p].pc = "insert"
    /\ LET pair == <<procs[p].follower, procs[p].followee>>
       IN  /\ RoomFor(pair)
           /\ IF pair \in requests \/ ~ForeignKeys(pair)
              THEN /\ procs' = Respond(p, create_status("IntegrityError"), "IntegrityError")
                   /\ UNCHANGED requests
              ELSE /\ requests' = requests \cup {pair}
                   /\ procs' = Respond(p, create_status("none"), "none")
    /\ UNCHANGED <<follows, posts, nextId, now, ticks, profiles>>

\* --------------------------------------- FollowRequestViewSet.accept
\* accept up to get_object()
FollowRequestViewSet_accept(p, actor, follower, followee) ==
    /\ procs[p].pc = "idle"
    /\ actor \in profiles
    /\ LET me == [Serve("accept", "accept_create", actor)
                    EXCEPT !.follower = follower, !.followee = followee]
           instance == get_object(FollowRequestViewSet_get_queryset("accept", actor),
                                  follower, followee)
       IN  procs' =
             IF instance = <<>>
             THEN [procs EXCEPT ![p] = [me EXCEPT !.pc = "done",
                                                  !.status = HTTP_404_NOT_FOUND,
                                                  !.error = "Http404"]]
             ELSE [procs EXCEPT ![p] = me]
    /\ UNCHANGED <<follows, requests, posts, nextId, now, ticks, profiles>>

\* FollowRequest.accept, first statement: Follow.objects.create(...)
FollowRequest_accept_create(p) ==
    /\ procs[p].op = "accept"
    /\ procs[p].pc = "accept_create"
    /\ LET pair == <<procs[p].follower, procs[p].followee>>
       IN  IF pair \in follows \/ ~ForeignKeys(pair)
           THEN /\ procs' = Respond(p, HTTP_500_INTERNAL_SERVER_ERROR, "IntegrityError")
                /\ UNCHANGED follows
           ELSE /\ follows' = follows \cup {pair}
                /\ procs' = [procs EXCEPT ![p].pc = "accept_delete"]
    /\ UNCHANGED <<requests, posts, nextId, now, ticks, profiles>>

\* FollowRequest.accept without its self.delete()
FollowRequest_accept_keep(p) ==
    /\ procs[p].op = "accept"
    /\ procs[p].pc = "accept_delete"
    /\ procs' = Respond(p, HTTP_200_OK, "none")
    /\ UNCHANGED <<follows, requests, posts, nextId, now, ticks, profiles>>

\* FollowRequest.accept, second statement: self.delete(); then
\* Response(HTTP_201_CREATED), whose status is the default 200
FollowRequest_accept_delete(p) ==
    /\ procs[p].op = "accept"
    /\ procs[p].pc = "accept_delete"
    /\ requests' = requests \ {<<procs[p].follower, procs[p].followee>>}
    /\ procs' = Respond(p, HTTP_200_OK, "none")
    /\ UNCHANGED <<follows, posts, nextId, now, ticks, profiles>>

\* --------------------------------------- FollowRequestViewSet.destroy
\* DestroyModelMixin.destroy up to get_object()
FollowRequestViewSet_destroy(p, actor, follower, followee) ==
    /\ procs[p].pc = "idle"
    /\ actor \in profiles
    /\ LET me == [Serve("destroy_request", "request_delete", actor)
                    EXCEPT !.follower = follower, !.followee = followee]
           instance == get_object(FollowRequestViewSet_get_queryset("destroy", actor),
                                  follower, followee)
       IN  procs' =
             IF instance = <<>>
             THEN [procs EXCEPT ![p] = [me EXCEPT !.pc = "done",
                                                  !.status = HTTP_404_NOT_FOUND,
                                                  !.error = "Http404"]]
             ELSE [procs EXCEPT ![p] = me]
    /\ UNCHANGED <<follows, requests, posts, nextId, now, ticks, profiles>>

\* perform_destroy: instance.delete()
FollowRequestViewSet_perform_destroy(p) ==
    /\ procs[p].op = "destroy_request"
    /\ procs[p].pc = "request_delete"
    /\ requests' = requests \ {<<procs[p].follower, procs[p].followee>>}
    /\ procs' = Respond(p, HTTP_204_NO_CONTENT, "none")
    /\ UNCHANGED <<follows, posts, nextId, now, ticks, profiles>>

\* ------------------- FollowingViewSet.destroy / FollowersViewSet.destroy
Endpoints == {"following", "followers"}

FollowViewSet_get_queryset(endpoint, current_user) ==
    IF endpoint = "following"
    THEN FollowingViewSet_get_queryset(current_user)
    ELSE FollowersViewSet_get_queryset(current_user)

\* the endpoint finds the Follow for retrieve and destroy: get_object() returns
\* it instead of raising Http404
FollowViewSet_allowed(endpoint, current_user, follower_id, followee_id) ==
    get_object(FollowViewSet_get_queryset(endpoint, current_user),
               follower_id, followee_id) # <<>>

\* DestroyModelMixin.destroy up to get_object()
FollowViewSet_destroy(p, endpoint, actor, follower, followee) ==
    /\ procs[p].pc = "idle"
    /\ actor \in profiles
    /\ LET me == [Serve(endpoint, "follow_delete", actor)
                    EXCEPT !.follower = follower, !.followee = followee]
           instance == get_object(FollowViewSet_get_queryset(endpoint, actor),
                                  follower, followee)
       IN  procs' =
             IF instance = <<>>
             THEN [procs EXCEPT ![p] = [me EXCEPT !.pc = "done",
                                                  !.status = HTTP_404_NOT_FOUND,
                                                  !.error = "Http404"]]
             ELSE [procs EXCEPT ![p] = me]
    /\ UNCHANGED <<follows, requests, posts, nextId, now, ticks, profiles>>

\* perform_destroy answering 204 without instance.delete()
FollowViewSet_perform_destroy_kept(p) ==
    /\ procs[p].op \in Endpoints
    /\ procs[p].pc = "follow_delete"
    /\ procs' = Respond(p, HTTP_204_NO_CONTENT, "none")
    /\ UNCHANGED <<follows, requests, posts, nextId, now, ticks, profiles>>

\* perform_destroy: instance.delete()
FollowViewSet_perform_destroy(p) ==
    /\ procs[p].op \in Endpoints
    /\ procs[p].pc = "follow_delete"
    /\ follows' = follows \ {<<procs[p].follower, procs[p].followee>>}
    /\ procs' = Respond(p, HTTP_204_NO_CONTENT, "none")
    /\ UNCHANGED <<requests, posts, nextId, now, ticks, profiles>>

\* ------------------------------------------------------------ DateManager
SecondsPerWeek == DaysPerWeek * SecondsPerDay

\* DateManager._get_day_at, with the clock reading t: the ISO weekday (1 = Monday
\* .. 7 = Sunday) of the local date at the given UTC offset
_get_day_at(t, utc_offset) ==
    (((t + utc_offset * SecondsPerHour + SecondsPerWeek) \div SecondsPerDay)
        % DaysPerWeek) + 1

\* is_sunday comparing with 6, Sunday in the numbering of datetime.weekday()
is_sunday_weekday(kiribati_day, idlw_day) == kiribati_day = 6 \/ idlw_day = 6

\* DateManager.is_sunday, the return expression over the two days it has read
is_sunday(kiribati_day, idlw_day) == kiribati_day = SUNDAY \/ idlw_day = SUNDAY

\* DateManager.is_sunday when both clock readings give the same instant t
is_sunday_at(t) == is_sunday(_get_day_at(t, KIRIBATI_OFFSET), _get_day_at(t, IDLW_OFFSET))

\* DateManager.last_sunday from its clock reading kiribati_now (an instant, like
\* now) and the answer of is_sunday(); datetime.weekday() is 0 for Monday
DateManager_last_sunday(kiribati_now, sunday) ==
    LET local == kiribati_now + KIRIBATI_OFFSET * SecondsPerHour + SecondsPerWeek
        kiribati_beginning_of_today ==
            (local \div SecondsPerDay) * SecondsPerDay
                - KIRIBATI_OFFSET * SecondsPerHour - SecondsPerWeek
        weekday == (local \div SecondsPerDay) % DaysPerWeek
    IN  IF sunday
        THEN kiribati_beginning_of_today
        ELSE kiribati_beginning_of_today - weekday * SecondsPerDay

\* DateManager.last_sunday when all its clock readings give the same instant t
last_sunday(t) == DateManager_last_sunday(t, is_sunday_at(t))

\* Countdown(days, hours, minutes)
Countdown(days, hours, minutes) == <<days, hours, minutes>>

\* Countdown.is_zero
is_zero(countdown) == countdown[1] = 0 /\ countdown[2] = 0 /\ countdown[3] = 0

\* the else branch of to_next_sunday counting the days with isoweekday()
Countdown_until_sunday(kiribati_now) ==
    LET local == kiribati_now + KIRIBATI_OFFSET * SecondsPerHour + SecondsPerWeek
        isoweekday == ((local \div SecondsPerDay) % DaysPerWeek) + 1
        kiribati_beginning_of_today == (local \div SecondsPerDay) * SecondsPerDay
        timedelta_to_next_sunday ==
            kiribati_beginning_of_today + (DaysPerWeek - isoweekday) * SecondsPerDay - local
        countdown_days == timedelta_to_next_sunday \div SecondsPerDay
        seconds == timedelta_to_next_sunday - countdown_days * SecondsPerDay
    IN  Countdown(countdown_days, seconds \div SecondsPerHour,
                  (seconds \div SecondsPerMinute) % MinutesPerHour)

\* Countdown.to_next_sunday, the else branch, from its clock reading kiribati_now
\* (microseconds are not modelled: the clock counts whole seconds)
Countdown_else(kiribati_now) ==
    LET local == kiribati_now + KIRIBATI_OFFSET * SecondsPerHour + SecondsPerWeek
        weekday == (local \div SecondsPerDay) % DaysPerWeek
        kiritbati_days_until_sunday == DaysPerWeek - weekday
        kiribati_beginning_of_today == (local \div SecondsPerDay) * SecondsPerDay
        kiribati_beginning_of_next_sunday ==
            kiribati_beginning_of_today + kiritbati_days_until_sunday * SecondsPerDay
        timedelta_to_next_sunday == kiribati_beginning_of_next_sunday - local
        countdown_days == timedelta_to_next_sunday \div SecondsPerDay
        seconds == timedelta_to_next_sunday - countdown_days * SecondsPerDay
        countdown_hours == seconds \div SecondsPerHour
        countdown_minutes == (seconds \div SecondsPerMinute) % MinutesPerHour
    IN  Countdown(countdown_days, countdown_hours, countdown_minutes)

\* Countdown.to_next_sunday when all its clock readings give the same instant t
to_next_sunday(t) == IF is_sunday_at(t) THEN Countdown(0, 0, 0) ELSE Countdown_else(t)

\* the clock advances by a second
Tick ==
    /\ ticks < MaxTicks
    /\ now' = now + 1
    /\ ticks' = ticks + 1
    /\ UNCHANGED <<follows, requests, posts, nextId, procs, profiles>>

\* ---------------------------------------------------- CountDownView.get
\* get up to the first clock reading of DateManager.is_sunday (the view is public)
CountDownView_get(p) ==
    /\ procs[p].pc = "idle"
    /\ procs' = [procs EXCEPT ![p] =
                   [Serve("countdown", "is_sunday", 0)
                      EXCEPT !.kiribati_day = _get_day_at(now, KIRIBATI_OFFSET)]]
    /\ UNCHANGED <<follows, requests, posts, nextId, now, ticks, profiles>>

\* to_next_sunday: the second clock reading of is_sunday and the branch
to_next_sunday_is_sunday(p) ==
    /\ procs[p].op = "countdown"
    /\ procs[p].pc = "is_sunday"
    /\ procs' =
         IF is_sunday(procs[p].kiribati_day, _get_day_at(now, IDLW_OFFSET))
         THEN [procs EXCEPT ![p].pc = "done", ![p].status = HTTP_200_OK,
                            ![p].data = Countdown(0, 0, 0)]
         ELSE [procs EXCEPT ![p].pc = "kiribati_now"]
    /\ UNCHANGED <<follows, requests, posts, nextId, now, ticks, profiles>>

\* to_next_sunday: the else branch, which reads the clock once more; then
\* Response(data=countdown.to_dict(), status=HTTP_200_OK)
to_next_sunday_else(p) ==
    /\ procs[p].op = "countdown"
    /\ procs[p].pc = "kiribati_now"
    /\ procs' = [procs EXCEPT ![p].pc = "done", ![p].status = HTTP_200_OK,
                              ![p].kiribati_now = now,
                              ![p].data = Countdown_else(now)]
    /\ UNCHANGED <<follows, requests, posts, nextId, now, ticks, profiles>>

\* ------------------------------------------------ access to posts, profiles
\* PostViewSet.get_queryset with the filter of the feed on the timestamp
PostViewSet_get_queryset_window(current_user) ==
    LET followed_users == {f[2] : f \in {g \in follows : g[1] = current_user}}
    IN  {q \in posts : /\ q.author \in followed_users \/ q.author = current_user
                       /\ q.datetime >= last_sunday(now)}

\* PostViewSet.get_queryset
PostViewSet_get_queryset(current_user) ==
    LET followed_users == {f[2] : f \in {g \in follows : g[1] = current_user}}
    IN  {q \in posts : q.author \in followed_users \/ q.author = current_user}

\* PostPermission.has_object_permission letting only the author retrieve
PostPermission_author_only(current_user, action, obj) ==
    CASE action \in {"destroy", "retrieve"} -> current_user = obj.author
      [] OTHER -> FALSE

\* PostPermission.has_object_permission letting a follower of the author destroy
PostPermission_destroy_by_follower(current_user, action, obj) ==
    CASE action \in {"destroy", "retrieve"} ->
            current_user = obj.author \/ <<current_user, obj.author>> \in follows
      [] OTHER -> FALSE

\* PostPermission.has_object_permission (the actor is authenticated)
PostPermission_has_object_permission(current_user, action, obj) ==
    LET current_user_is_author == current_user = obj.author
        current_user_follows_author == <<current_user, obj.author>> \in follows
    IN  CASE action = "destroy" -> current_user_is_author
          [] action = "retrieve" -> current_user_is_author \/ current_user_follows_author
          [] OTHER -> FALSE

\* PostViewSet.retrieve answers 200: GenericAPIView.get_object finds the post in
\* the queryset and check_object_permissions lets it through
PostViewSet_retrieve_allowed(current_user, post) ==
    /\ post \in PostViewSet_get_queryset(current_user)
    /\ PostPermission_has_object_permission(current_user, "retrieve", post)

\* PostViewSet.destroy gets as far as perform_destroy: get_object finds the post
\* in the queryset and check_object_permissions lets it through
PostViewSet_destroy_allowed(current_user, post) ==
    /\ post \in PostViewSet_get_queryset(current_user)
    /\ PostPermission_has_object_permission(current_user, "destroy", post)

\* ExtendedUserPermission.has_object_permission with follower and followee
\* exchanged in the Follow it looks for
ExtendedUserPermission_followee_reads(current_user, action, obj) ==
    CASE action = "retrieve" ->
            current_user = obj \/ {f \in follows : f = <<obj, current_user>>} # {}
      [] action \in {"destroy", "update"} -> current_user = obj
      [] OTHER -> FALSE

\* ExtendedUserPermission.has_object_permission (the actor is authenticated);
\* the queryset it returns for `retrieve` is true iff it has a row
ExtendedUserPermission_has_object_permission(current_user, action, obj) ==
    CASE action = "retrieve" ->
            current_user = obj \/ {f \in follows : f = <<current_user, obj>>} # {}
      [] action \in {"destroy", "update"} -> current_user = obj
      [] OTHER -> FALSE

\* ExtendedUserViewSet.retrieve answers 200 (queryset: ExtendedUser.objects.all())
ExtendedUserViewSet_retrieve_allowed(current_user, target) ==
    /\ target \in profiles
    /\ ExtendedUserPermission_has_object_permission(current_user, "retrieve", target)

\* the actions of ExtendedUserViewSet on one profile: RetrieveModelMixin,
\* UpdateModelMixin (PUT is `update`, PATCH is `partial_update`), DestroyModelMixin
ProfileActions == {"retrieve", "update", "partial_update", "destroy"}

\* ExtendedUserViewSet lets the action through: GenericAPIView.get_object finds
\* the profile in ExtendedUser.objects.all() and checks ExtendedUserPermission
ExtendedUserViewSet_allowed(current_user, action, target) ==
    /\ target \in profiles
    /\ ExtendedUserPermission_has_object_permission(current_user, action, target)

\* FeedViewSet.get_queryset taking the followed users from pending requests too
FeedViewSet_get_queryset_pending(current_user) ==
    LET followed_users ==
            {f[2] : f \in {g \in follows \cup requests : g[1] = current_user}}
        visible == {q \in posts : q.author \in followed_users \/ q.author = current_user}
    IN  {q \in visible : q.datetime >= last_sunday(now)}

\* FeedViewSet.get_queryset, the rows of the feed when the clock reads `now`
FeedViewSet_get_queryset(current_user) ==
    LET followed_users == {f[2] : f \in {g \in follows : g[1] = current_user}}
        visible == {q \in posts : q.author \in followed_users \/ q.author = current_user}
    IN  {q \in visible : q.datetime >= last_sunday(now)}

\* ... and the orders in which order_by('-datetime') may return them
FeedViewSet_list(current_user) ==
    LET rows == FeedViewSet_get_queryset(current_user)
        n == Cardinality(rows)
    IN  {s \in [1 .. n -> rows] :
            /\ \A i, j \in 1 .. n : i # j => s[i] # s[j]
            /\ \A i, j \in 1 .. n : i < j => s[i].datetime >= s[j].datetime}

\* ------------------------------------------------------- FeedViewSet.list
\* list up to the first clock reading of DateManager.last_sunday (the querysets
\* built before it are lazy)
FeedViewSet_list_get_queryset(p, actor) ==
    /\ procs[p].pc = "idle"
    /\ actor \in profiles
    /\ procs' = [procs EXCEPT ![p] =
                   [Serve("feed", "kiribati_day", actor) EXCEPT !.kiribati_now = now]]
    /\ UNCHANGED <<follows, requests, posts, nextId, now, ticks, profiles>>

\* last_sunday: the first clock reading of its call of is_sunday
last_sunday_kiribati_day(p) ==
    /\ procs[p].op = "feed"
    /\ procs[p].pc = "kiribati_day"
    /\ procs' = [procs EXCEPT ![p].pc = "idlw_day",
                              ![p].kiribati_day = _get_day_at(now, KIRIBATI_OFFSET)]
    /\ UNCHANGED <<follows, requests, posts, nextId, now, ticks, profiles>>

\* last_sunday: the second clock reading of is_sunday, and the datetime returned
last_sunday_is_sunday(p) ==
    /\ procs[p].op = "feed"
    /\ procs[p].pc = "idlw_day"
    /\ LET sunday == is_sunday(procs[p].kiribati_day, _get_day_at(now, IDLW_OFFSET))
       IN  procs' = [procs EXCEPT ![p].pc = "query",
                                  ![p].since = DateManager_last_sunday(procs[p].kiribati_now,
                                                                       sunday)]
    /\ UNCHANGED <<follows, requests, posts, nextId, now, ticks, profiles>>

\* ListModelMixin.list evaluates the queryset: one SELECT with the filter
\* datetime >= since and order_by('-datetime')
FeedViewSet_list_query(p) ==
    /\ procs[p].op = "feed"
    /\ procs[p].pc = "query"
    /\ LET current_user == procs[p].actor
           followed_users == {f[2] : f \in {g \in follows : g[1] = current_user}}
           visible == {q \in posts : q.author \in followed_users \/ q.author = current_user}
           rows == {q \in visible : q.datetime >= procs[p].since}
           n == Cardinality(rows)
       IN  \E feed \in {f \in [1 .. n -> rows] :
                          /\ \A i, j \in 1 .. n : i # j => f[i] # f[j]
                          /\ \A i, j \in 1 .. n : i < j => f[i].datetime >= f[j].datetime} :
              procs' = [procs EXCEPT ![p].pc = "done", ![p].status = HTTP_200_OK,
                                     ![p].data = feed]
    /\ UNCHANGED <<follows, requests, posts, nextId, now, ticks, profiles>>

\* ------------------------------------------------------ PostViewSet.create
\* PostSerializer: `author` is read only, so is_valid() keeps only the content
PostSerializer_validated_data(data) == [content |-> data.content]

\* serializer.save(**kwargs) builds the row from validated_data overridden by kwargs
serializer_save(validated_data, author) ==
    [author |-> author, content |-> validated_data.content]

\* create up to the first clock reading of DateManager.is_sunday; `author` is the
\* author the client put into the request body
PostViewSet_create(p, actor, author, content) ==
    /\ procs[p].pc = "idle"
    /\ procs' = [procs EXCEPT ![p] =
                   [Serve("post_create", "is_sunday", actor)
                      EXCEPT !.follower = author, !.content = content,
                             !.kiribati_day = _get_day_at(now, KIRIBATI_OFFSET)]]
    /\ UNCHANGED <<follows, requests, posts, nextId, now, ticks, profiles>>

\* the second clock reading of DateManager.is_sunday and the gate
PostViewSet_create_is_sunday(p) ==
    /\ procs[p].op = "post_create"
    /\ procs[p].pc = "is_sunday"
    /\ procs' =
         IF ~is_sunday(procs[p].kiribati_day, _get_day_at(now, IDLW_OFFSET))
         THEN RespondPost(p, HTTP_403_FORBIDDEN, "none")
         ELSE [procs EXCEPT ![p].pc = "save"]
    /\ UNCHANGED <<follows, requests, posts, nextId, now, ticks, profiles>>

\* serializer.is_valid(); ExtendedUser.objects.get(user=request.user), which
\* raises DoesNotExist when the profile of the actor is gone (nobody catches it);
\* serializer.save(author=extended_user): the INSERT, with auto_now_add stamping
\* the row with the clock at that moment
PostViewSet_create_save(p) ==
    /\ procs[p].op = "post_create"
    /\ procs[p].pc = "save"
    /\ nextId <= MaxPosts
    /\ IF procs[p].actor \notin profiles
       THEN /\ procs' = RespondPost(p, HTTP_500_INTERNAL_SERVER_ERROR, "DoesNotExist")
            /\ UNCHANGED <<posts, nextId>>
       ELSE /\ LET data == [author |-> procs[p].follower, content |-> procs[p].content]
                   row == serializer_save(PostSerializer_validated_data(data),
                                          procs[p].actor)
               IN  posts' = posts \cup {[id |-> nextId, author |-> row.author,
                                         content |-> row.content, datetime |-> now]}
            /\ nextId' = nextId + 1
            /\ procs' = [procs EXCEPT ![p].pc = "perform_create", ![p].post = nextId]
    /\ UNCHANGED <<follows, requests, now, ticks, profiles>>

\* self.perform_create(serializer): serializer.save() once more, now on the saved
\* instance: Model.save() UPDATEs the row and, if no row has that id any more,
\* INSERTs it again (auto_now_add stamps it anew); the foreign key `author`
\* rejects the INSERT with an IntegrityError when the profile is gone
PostViewSet_perform_create(p) ==
    /\ procs[p].op = "post_create"
    /\ procs[p].pc = "perform_create"
    /\ LET stored == {q \in posts : q.id = procs[p].post}
       IN  IF stored # {}
           THEN /\ posts' = (posts \ stored)
                               \cup {[q EXCEPT !.content = procs[p].content] : q \in stored}
                /\ procs' = RespondPost(p, HTTP_201_CREATED, "none")
           ELSE IF procs[p].actor \in profiles
           THEN /\ posts' = posts \cup {[id |-> procs[p].post, author |-> procs[p].actor,
                                          content |-> procs[p].content, datetime |-> now]}
                /\ procs' = RespondPost(p, HTTP_201_CREATED, "none")
           ELSE /\ procs' = RespondPost(p, HTTP_500_INTERNAL_SERVER_ERROR, "IntegrityError")
                /\ UNCHANGED posts
    /\ UNCHANGED <<follows, requests, nextId, now, ticks, profiles>>

\* ----------------------------------------------------- PostViewSet.destroy
\* DestroyModelMixin.destroy up to get_object(), which checks PostPermission
PostViewSet_destroy(p, actor, id) ==
    /\ procs[p].pc = "idle"
    /\ actor \in profiles
    /\ LET me == Serve("post_destroy", "post_delete", actor)
           found == {q \in PostViewSet_get_queryset(actor) : q.id = id}
       IN  procs' =
             IF found = {}
             THEN [procs EXCEPT ![p] = [me EXCEPT !.pc = "done",
                                                  !.status = HTTP_404_NOT_FOUND,
                                                  !.error = "Http404"]]
             ELSE IF \E q \in found :
                        ~PostPermission_has_object_permission(actor, "destroy", q)
             THEN [procs EXCEPT ![p] = [me EXCEPT !.pc = "done",
                                                  !.status = HTTP_403_FORBIDDEN,
                                                  !.error = "PermissionDenied"]]
             ELSE [procs EXCEPT ![p] = [me EXCEPT !.post = id]]
    /\ UNCHANGED <<follows, requests, posts, nextId, now, ticks, profiles>>

\* perform_destroy: instance.delete()
PostViewSet_perform_destroy(p) ==
    /\ procs[p].op = "post_destroy"
    /\ procs[p].pc = "post_delete"
    /\ posts' = {q \in posts : q.id # procs[p].post}
    /\ procs' = RespondPost(p, HTTP_204_NO_CONTENT, "none")
    /\ UNCHANGED <<follows, requests, nextId, now, ticks, profiles>>

\* ------------------------------------------------ ExtendedUserViewSet.destroy
\* DestroyModelMixin.destroy up to get_object(): the profile is looked up in
\* ExtendedUser.objects.all() and ExtendedUserPermission is checked
ExtendedUserViewSet_destroy(p, actor, target) ==
    /\ procs[p].pc = "idle"
    /\ actor \in profiles
    /\ LET me == [Serve("profile_destroy", "profile_delete", actor)
                    EXCEPT !.target = target]
       IN  procs' =
             IF target \notin profiles
             THEN [procs EXCEPT ![p] = [me EXCEPT !.pc = "done",
                                                  !.status = HTTP_404_NOT_FOUND,
                                                  !.error = "Http404"]]
             ELSE IF ~ExtendedUserPermission_has_object_permission(actor, "destroy", target)
             THEN [procs EXCEPT ![p] = [me EXCEPT !.pc = "done",
                                                  !.status = HTTP_403_FORBIDDEN,
                                                  !.error = "PermissionDenied"]]
             ELSE [procs EXCEPT ![p] = me]
    /\ UNCHANGED <<follows, requests, posts, nextId, now, ticks, profiles>>

\* perform_destroy with the foreign keys of FollowRequest not cascading
ExtendedUserViewSet_perform_destroy_requests_kept(p) ==
    /\ procs[p].op = "profile_destroy"
    /\ procs[p].pc = "profile_delete"
    /\ LET gone == procs[p].target
       IN  /\ follows' = {f \in follows : gone \notin {f[1], f[2]}}
           /\ posts' = {q \in posts : q.author # gone}
           /\ profiles' = profiles \ {gone}
    /\ procs' = Respond(p, HTTP_204_NO_CONTENT, "none")
    /\ UNCHANGED <<requests, nextId, now, ticks>>

\* perform_destroy: instance.delete().  Model.delete collects the rows whose
\* foreign key to the profile is on_delete=CASCADE (Follow and FollowRequest by
\* follower and by followee, Post by author) and deletes them and the profile in
\* one transaction
ExtendedUserViewSet_perform_destroy(p) ==
    /\ procs[p].op = "profile_destroy"
    /\ procs[p].pc = "profile_delete"
    /\ LET gone == procs[p].target
       IN  /\ follows' = {f \in follows : gone \notin {f[1], f[2]}}
           /\ requests' = {f \in requests : gone \notin {f[1], f[2]}}
           /\ posts' = {q \in posts : q.author # gone}
           /\ profiles' = profiles \ {gone}
    /\ procs' = Respond(p, HTTP_204_NO_CONTENT, "none")
    /\ UNCHANGED <<nextId, now, ticks>>

\* a request of a user whose profile is gone, to a handler that starts with
\* get_current_user_from_request: ExtendedUser.objects.get raises DoesNotExist,
\* which nobody catches
get_current_user_from_request_DoesNotExist(p, actor) ==
    /\ procs[p].pc = "idle"
    /\ actor \notin profiles
    /\ procs' = [procs EXCEPT ![p] =
                   [Serve("get_current_user", "done", actor)
                      EXCEPT !.status = HTTP_500_INTERNAL_SERVER_ERROR,
                             !.error = "DoesNotExist"]]
    /\ UNCHANGED <<follows, requests, posts, nextId, now, ticks, profiles>>

\* ------------------------------------------------------------- response
\* the response has been sent; the worker takes the next request
Return(p) ==
    /\ procs[p].pc = "done"
    /\ procs' = [procs EXCEPT ![p] = Idle]
    /\ UNCHANGED <<follows, requests, posts, nextId, now, ticks, profiles>>

\* ------------------------------------------------------- specifications
Init ==
    /\ follows = {}
    /\ requests = {}
    /\ posts = {}
    /\ nextId = 1
    /\ now = 0
    /\ ticks = 0
    /\ procs = [p \in Procs |-> Idle]
    /\ profiles = Users

\* the relationship handlers, served concurrently
Next ==
    \/ \E p \in Procs, actor \in Users, pair \in Pairs :
          FollowRequestViewSet_create(p, actor, pair[1], pair[2])
    \/ \E p \in Procs : create_request_check_request(p)
    \/ \E p \in Procs : create_request_insert(p)
    \/ \E p \in Procs, actor \in Users, pair \in Pairs :
          FollowRequestViewSet_accept(p, actor, pair[1], pair[2])
    \/ \E p \in Procs : FollowRequest_accept_create(p)
    \/ \E p \in Procs : FollowRequest_accept_delete(p)
    \/ \E p \in Procs, actor \in Users, pair \in Pairs :
          FollowRequestViewSet_destroy(p, actor, pair[1], pair[2])
    \/ \E p \in Procs : FollowRequestViewSet_perform_destroy(p)
    \/ \E p \in Procs, e \in Endpoints, actor \in Users, pair \in Pairs :
          FollowViewSet_destroy(p, e, actor, pair[1], pair[2])
    \/ \E p \in Procs : FollowViewSet_perform_destroy(p)
    \/ \E p \in Procs : Return(p)

Spec == Init /\ [][Next]_vars

\* Only FollowRequestViewSet.create is called, on an empty database, and every
\* worker serves one request: duplicate create calls racing from state NONE.
CreateRaceNext ==
    \/ \E p \in Procs, actor \in Users, pair \in Pairs :
          FollowRequestViewSet_create(p, actor, pair[1], pair[2])
    \/ \E p \in Procs : create_request_check_request(p)
    \/ \E p \in Procs : create_request_insert(p)

CreateRaceSpec == Init /\ [][CreateRaceNext]_vars

\* Only FollowRequestViewSet.create is called, by all workers again and again, on
\* any contents of the relationship tables (Spec reaches every combination of
\* Follow and FollowRequest rows on at most MaxPairs pairs).
CreateInit ==
    /\ follows \in SUBSET Pairs
    /\ requests \in SUBSET Pairs
    /\ Cardinality(follows \cup requests) <= MaxPairs
    /\ posts = {}
    /\ nextId = 1
    /\ now = 0
    /\ ticks = 0
    /\ procs = [p \in Procs |-> Idle]
    /\ profiles = Users

CreateNext ==
    \/ \E p \in Procs, actor \in Users, pair \in Pairs :
          FollowRequestViewSet_create(p, actor, pair[1], pair[2])
    \/ \E p \in Procs : create_request_check_request(p)
    \/ \E p \in Procs : create_request_insert(p)
    \/ \E p \in Procs : Return(p)

CreateSpec == CreateInit /\ [][CreateNext]_vars

\* Only FollowRequestViewSet.accept is called, on a database that holds pending
\* requests and no Follow, and every worker serves one request.
AcceptRaceInit ==
    /\ follows = {}
    /\ requests \in {S \in SUBSET Pairs : Cardinality(S) \in 1 .. MaxPairs}
    /\ posts = {}
    /\ nextId = 1
    /\ now = 0
    /\ ticks = 0
    /\ procs = [p \in Procs |-> Idle]
    /\ profiles = Users

AcceptRaceNext ==
    \/ \E p \in Procs, actor \in Users, pair \in Pairs :
          FollowRequestViewSet_accept(p, actor, pair[1], pair[2])
    \/ \E p \in Procs : FollowRequest_accept_create(p)
    \/ \E p \in Procs : FollowRequest_accept_delete(p)

AcceptRaceSpec == AcceptRaceInit /\ [][AcceptRaceNext]_vars

\* The post handlers and the clock, with the clock starting just before an edge
\* of the weekly window.  Every worker serves one request, all of them at the
\* same time; the relationship tables are empty and do not change.
MondayNoonUTC == 12 * SecondsPerHour
SaturdayTenUTC == 5 * SecondsPerDay + 10 * SecondsPerHour
SundayTenUTC == 6 * SecondsPerDay + 10 * SecondsPerHour

StartTimes == {MondayNoonUTC - 1, SaturdayTenUTC - 1, SundayTenUTC - 1}

PostInit ==
    /\ follows = {}
    /\ requests = {}
    /\ posts = {}
    /\ nextId = 1
    /\ now \in StartTimes
    /\ ticks = 0
    /\ procs = [p \in Procs |-> Idle]
    /\ profiles = Users

PostNext ==
    \/ Tick
    \/ \E p \in Procs, actor \in Users, author \in Users, content \in Contents :
          PostViewSet_create(p, actor, author, content)
    \/ \E p \in Procs : PostViewSet_create_is_sunday(p)
    \/ \E p \in Procs : PostViewSet_create_save(p)
    \/ \E p \in Procs : PostViewSet_perform_create(p)
    \/ \E p \in Procs, actor \in Users, id \in 1 .. MaxPosts :
          PostViewSet_destroy(p, actor, id)
    \/ \E p \in Procs : PostViewSet_perform_destroy(p)

PostSpec == PostInit /\ [][PostNext]_vars

\* The access decisions are functions of the three tables.  To evaluate them on
\* every table contents, a run starts from any of the states the relationship
\* handlers reach (Spec reaches every combination of Follow and FollowRequest
\* rows on at most MaxPairs pairs) and fills table Post while the window is open;
\* the post requests are served one after the other, by the first worker.
AccessInit ==
    /\ follows \in SUBSET Pairs
    /\ requests \in SUBSET Pairs
    /\ Cardinality(follows \cup requests) <= MaxPairs
    /\ posts = {}
    /\ nextId = 1
    /\ now = SaturdayTenUTC
    /\ ticks = 0
    /\ procs = [p \in Procs |-> Idle]
    /\ profiles = Users

FirstWorker == {1}
FirstTwoWorkers == {1, 2}

AccessNext ==
    \/ \E p \in FirstWorker, actor \in Users, author \in Users, content \in Contents :
          PostViewSet_create(p, actor, author, content)
    \/ \E p \in FirstWorker : PostViewSet_create_is_sunday(p)
    \/ \E p \in FirstWorker : PostViewSet_create_save(p)
    \/ \E p \in FirstWorker : PostViewSet_perform_create(p)
    \/ \E p \in FirstWorker, actor \in Users, id \in 1 .. MaxPosts :
          PostViewSet_destroy(p, actor, id)
    \/ \E p \in FirstWorker : PostViewSet_perform_destroy(p)
    \/ \E p \in FirstWorker : Return(p)

AccessSpec == AccessInit /\ [][AccessNext]_vars

\* The post handlers served concurrently while the window is open, on any
\* contents of table Follow (no pending requests) and with or without a first
\* post stored when the window opened (AccessSpec reaches these tables); every
\* worker serves one request.
DeleteInit ==
    /\ follows \in SUBSET Pairs
    /\ Cardinality(follows) <= MaxPairs
    /\ requests = {}
    /\ \/ posts = {} /\ nextId = 1
       \/ \E a \in Users, c \in Contents :
             /\ posts = {[id |-> 1, author |-> a, content |-> c,
                          datetime |-> SaturdayTenUTC]}
             /\ nextId = 2
    /\ now = SaturdayTenUTC
    /\ ticks = 0
    /\ procs = [p \in Procs |-> Idle]
    /\ profiles = Users

DeleteNext ==
    \/ \E p \in Procs, actor \in Users, author \in Users, content \in Contents :
          PostViewSet_create(p, actor, author, content)
    \/ \E p \in Procs : PostViewSet_create_is_sunday(p)
    \/ \E p \in Procs : PostViewSet_create_save(p)
    \/ \E p \in Procs : PostViewSet_perform_create(p)
    \/ \E p \in Procs, actor \in Users, id \in 1 .. MaxPosts :
          PostViewSet_destroy(p, actor, id)
    \/ \E p \in Procs : PostViewSet_perform_destroy(p)

DeleteSpec == DeleteInit /\ [][DeleteNext]_vars

\* The handlers that work on a stored FollowRequest (accept and destroy), served
\* concurrently on a database that holds pending requests and no Follow; every
\* worker serves one request.
RequestNext ==
    \/ \E p \in Procs, actor \in Users, pair \in Pairs :
          FollowRequestViewSet_accept(p, actor, pair[1], pair[2])
    \/ \E p \in Procs : FollowRequest_accept_create(p)
    \/ \E p \in Procs : FollowRequest_accept_delete(p)
    \/ \E p \in Procs, actor \in Users, pair \in Pairs :
          FollowRequestViewSet_destroy(p, actor, pair[1], pair[2])
    \/ \E p \in Procs : FollowRequestViewSet_perform_destroy(p)

RequestSpec == AcceptRaceInit /\ [][RequestNext]_vars

\* The destroy handlers of the following and followers endpoints, served
\* concurrently on a database that holds Follow edges and no pending request;
\* every worker serves one request.
EdgeInit ==
    /\ follows \in {S \in SUBSET Pairs : Cardinality(S) \in 1 .. MaxPairs}
    /\ requests = {}
    /\ posts = {}
    /\ nextId = 1
    /\ now = 0
    /\ ticks = 0
    /\ procs = [p \in Procs |-> Idle]
    /\ profiles = Users

EdgeNext ==
    \/ \E p \in Procs, e \in Endpoints, actor \in Users, pair \in Pairs :
          FollowViewSet_destroy(p, e, actor, pair[1], pair[2])
    \/ \E p \in Procs : FollowViewSet_perform_destroy(p)

EdgeSpec == EdgeInit /\ [][EdgeNext]_vars

\* The countdown and the feed are asked for at every hour of the week, from a
\* second before the hour to MaxTicks seconds later; the requests are served one
\* after the other, by the first worker, while the clock runs.
HoursPerWeek == SecondsPerWeek \div SecondsPerHour

GateInit ==
    /\ follows = {}
    /\ requests = {}
    /\ posts = {}
    /\ nextId = 1
    /\ now \in {h * SecondsPerHour - 1 : h \in 0 .. HoursPerWeek - 1}
    /\ ticks = 0
    /\ procs = [p \in Procs |-> Idle]
    /\ profiles = Users

GateNext ==
    \/ Tick
    \/ \E p \in FirstWorker : CountDownView_get(p)
    \/ \E p \in FirstWorker : to_next_sunday_is_sunday(p)
    \/ \E p \in FirstWorker : to_next_sunday_else(p)
    \/ \E p \in FirstWorker, actor \in Users : FeedViewSet_list_get_queryset(p, actor)
    \/ \E p \in FirstWorker : last_sunday_kiribati_day(p)
    \/ \E p \in FirstWorker : last_sunday_is_sunday(p)
    \/ \E p \in FirstWorker : FeedViewSet_list_query(p)
    \/ \E p \in FirstWorker : Return(p)

GateSpec == GateInit /\ [][GateNext]_vars

\* The feed is asked for around the edges of one weekly opening, on any contents
\* of table Follow and with posts stored during this opening or the one before
\* (every stored timestamp is an instant of an open gate, ids grow with the
\* timestamps); the requests are served one after the other, by the first
\* worker, while the clock runs.
SundayNoonUTC == 6 * SecondsPerDay + 12 * SecondsPerHour
NextMondayTenUTC == SecondsPerWeek + 10 * SecondsPerHour
NextMondayNoonUTC == SecondsPerWeek + MondayNoonUTC

PostTimes == {MondayNoonUTC - 1, SaturdayTenUTC, SundayTenUTC - 1, SundayNoonUTC}

FeedTimes ==
    {SaturdayTenUTC - 1, SundayTenUTC - 1, SundayNoonUTC - 1, NextMondayTenUTC - 1,
     NextMondayNoonUTC - 1}

StoredPosts ==
    UNION {{S \in SUBSET [id : 1 .. n, author : Users, content : Contents,
                          datetime : PostTimes] :
               /\ Cardinality(S) = n
               /\ \A q, r \in S : q.id < r.id => q.datetime <= r.datetime
               /\ \A q, r \in S : q.id = r.id => q = r} : n \in 0 .. MaxPosts}

FeedInit ==
    /\ follows \in SUBSET Pairs
    /\ Cardinality(follows) <= MaxPairs
    /\ requests = {}
    /\ posts \in StoredPosts
    /\ nextId = Cardinality(posts) + 1
    /\ now \in FeedTimes
    /\ \A q \in posts : q.datetime <= now
    /\ ticks = 0
    /\ procs = [p \in Procs |-> Idle]
    /\ profiles = Users

FeedNext ==
    \/ Tick
    \/ \E p \in FirstWorker, actor \in Users : FeedViewSet_list_get_queryset(p, actor)
    \/ \E p \in FirstWorker : last_sunday_kiribati_day(p)
    \/ \E p \in FirstWorker : last_sunday_is_sunday(p)
    \/ \E p \in FirstWorker : FeedViewSet_list_query(p)
    \/ \E p \in FirstWorker : Return(p)

FeedSpec == FeedInit /\ [][FeedNext]_vars

\* The scenario of a request and its acceptance: the create and accept handlers
\* are called one after the other (the requests are served by the first worker),
\* from empty relationship tables, with posts stored during this opening or the
\* one before and the clock at the last second of Sunday or of Monday at UTC+14.
ScenarioTimes == {SundayTenUTC - 1, NextMondayTenUTC - 1}

ScenarioInit ==
    /\ follows = {}
    /\ requests = {}
    /\ posts \in StoredPosts
    /\ nextId = Cardinality(posts) + 1
    /\ now \in ScenarioTimes
    /\ \A q \in posts : q.datetime <= now
    /\ ticks = 0
    /\ procs = [p \in Procs |-> Idle]
    /\ profiles = Users

ScenarioNext ==
    \/ \E p \in FirstWorker, actor \in Users, pair \in Pairs :
          FollowRequestViewSet_create(p, actor, pair[1], pair[2])
    \/ \E p \in FirstWorker : create_request_check_request(p)
    \/ \E p \in FirstWorker : create_request_insert(p)
    \/ \E p \in FirstWorker, actor \in Users, pair \in Pairs :
          FollowRequestViewSet_accept(p, actor, pair[1], pair[2])
    \/ \E p \in FirstWorker : FollowRequest_accept_create(p)
    \/ \E p \in FirstWorker : FollowRequest_accept_delete(p)
    \/ \E p \in FirstWorker : Return(p)

ScenarioSpec == ScenarioInit /\ [][ScenarioNext]_vars

\* Leaving and re-entering the per-pair state machine: the handlers that delete
\* a FollowRequest or a Follow and FollowRequestViewSet.create are called one
\* after the other (a request starts when no other is being served): the first
\* two workers serve one request each, on
\* relationship tables that hold one row at most for a pair (what the handlers
\* called one after the other leave behind) and with or without a post stored
\* when the window opened.
Quiet(p) == \A r \in FirstTwoWorkers \ {p} : procs[r].pc \in {"idle", "done"}

ReentryInit ==
    /\ follows \in SUBSET Pairs
    /\ requests \in SUBSET Pairs
    /\ follows \cap requests = {}
    /\ Cardinality(follows \cup requests) \in 1 .. MaxPairs
    /\ \/ posts = {} /\ nextId = 1
       \/ \E a \in Users, c \in Contents :
             /\ posts = {[id |-> 1, author |-> a, content |-> c,
                          datetime |-> SaturdayTenUTC]}
             /\ nextId = 2
    /\ now = SaturdayTenUTC
    /\ ticks = 0
    /\ procs = [p \in Procs |-> Idle]
    /\ profiles = Users

ReentryNext ==
    \/ \E p \in FirstTwoWorkers, actor \in Users, pair \in Pairs :
          Quiet(p) /\ FollowRequestViewSet_destroy(p, actor, pair[1], pair[2])
    \/ \E p \in FirstTwoWorkers : FollowRequestViewSet_perform_destroy(p)
    \/ \E p \in FirstTwoWorkers, e \in Endpoints, actor \in Users, pair \in Pairs :
          Quiet(p) /\ FollowViewSet_destroy(p, e, actor, pair[1], pair[2])
    \/ \E p \in FirstTwoWorkers : FollowViewSet_perform_destroy(p)
    \/ \E p \in FirstTwoWorkers, actor \in Users, pair \in Pairs :
          Quiet(p) /\ FollowRequestViewSet_create(p, actor, pair[1], pair[2])
    \/ \E p \in FirstTwoWorkers : create_request_check_request(p)
    \/ \E p \in FirstTwoWorkers : create_request_insert(p)

ReentrySpec == ReentryInit /\ [][ReentryNext]_vars

\* The relationship handlers served concurrently, every worker serving one
\* request, on a database that is empty or holds one Follow edge (the outcome
\* of an earlier request and accept).
OnceInit ==
    /\ follows \in {S \in SUBSET Pairs : Cardinality(S) <= 1}
    /\ requests = {}
    /\ posts = {}
    /\ nextId = 1
    /\ now = 0
    /\ ticks = 0
    /\ procs = [p \in Procs |-> Idle]
    /\ profiles = Users

OnceNext ==
    \/ \E p \in Procs, actor \in Users, pair \in Pairs :
          FollowRequestViewSet_create(p, actor, pair[1], pair[2])
    \/ \E p \in Procs : create_request_check_request(p)
    \/ \E p \in Procs : create_request_insert(p)
    \/ \E p \in Procs, actor \in Users, pair \in Pairs :
          FollowRequestViewSet_accept(p, actor, pair[1], pair[2])
    \/ \E p \in Procs : FollowRequest_accept_create(p)
    \/ \E p \in Procs : FollowRequest_accept_delete(p)
    \/ \E p \in Procs, actor \in Users, pair \in Pairs :
          FollowRequestViewSet_destroy(p, actor, pair[1], pair[2])
    \/ \E p \in Procs : FollowRequestViewSet_perform_destroy(p)
    \/ \E p \in Procs, e \in Endpoints, actor \in Users, pair \in Pairs :
          FollowViewSet_destroy(p, e, actor, pair[1], pair[2])
    \/ \E p \in Procs : FollowViewSet_perform_destroy(p)

OnceSpec == OnceInit /\ [][OnceNext]_vars

\* Profiles are deleted while requests that insert rows are being served: the
\* destroy handler of ExtendedUserViewSet runs concurrently with the create and
\* accept handlers of FollowRequestViewSet and the create handler of PostViewSet
\* (each called by the user the row would belong to), while the window is open,
\* on any contents of the relationship tables and with or without a stored post;
\* the first two workers serve one request each.
ProfileInit ==
    /\ follows \in SUBSET Pairs
    /\ requests \in SUBSET Pairs
    /\ Cardinality(follows \cup requests) <= MaxPairs
    /\ \/ posts = {} /\ nextId = 1
       \/ \E a \in Users, c \in Contents :
             /\ posts = {[id |-> 1, author |-> a, content |-> c,
                          datetime |-> SaturdayTenUTC]}
             /\ nextId = 2
    /\ now = SaturdayTenUTC
    /\ ticks = 0
    /\ procs = [p \in Procs |-> Idle]
    /\ profiles = Users

ProfileNext ==
    \/ \E p \in FirstTwoWorkers, actor \in Users, target \in Users :
          ExtendedUserViewSet_destroy(p, actor, target)
    \/ \E p \in FirstTwoWorkers : ExtendedUserViewSet_perform_destroy(p)
    \/ \E p \in FirstTwoWorkers, actor \in Users : get_current_user_from_request_DoesNotExist(p, actor)
    \/ \E p \in FirstTwoWorkers, pair \in Pairs :
          FollowRequestViewSet_create(p, pair[1], pair[1], pair[2])
    \/ \E p \in FirstTwoWorkers : create_request_check_request(p)
    \/ \E p \in FirstTwoWorkers : create_request_insert(p)
    \/ \E p \in FirstTwoWorkers, pair \in Pairs :
          FollowRequestViewSet_accept(p, pair[2], pair[1], pair[2])
    \/ \E p \in FirstTwoWorkers : FollowRequest_accept_create(p)
    \/ \E p \in FirstTwoWorkers : FollowRequest_accept_delete(p)
    \/ \E p \in FirstTwoWorkers, actor \in Users, content \in Contents :
          PostViewSet_create(p, actor, actor, content)
    \/ \E p \in FirstTwoWorkers : PostViewSet_create_is_sunday(p)
    \/ \E p \in FirstTwoWorkers : PostViewSet_create_save(p)
    \/ \E p \in FirstTwoWorkers : PostViewSet_perform_create(p)

ProfileSpec == ProfileInit /\ [][ProfileNext]_vars

\* ================================================================ claims
PairOf(r) == <<r.follower, r.followee>>

\* worker p takes a step of the handler `op` in this transition
Steps(p, op) == procs'[p] # procs[p] /\ procs'[p].op = op

\* worker p sends the response of the handler `op` in this transition
Finishes(p, op) == Steps(p, op) /\ procs'[p].pc = "done"

\* C1: for every pair (A,B) with a pending FollowRequest(A,B), accept leaves
\* Follow(A,B) existing and FollowRequest(A,B) absent, atomically: the step of
\* accept that creates Follow(A,B) leaves no FollowRequest(A,B) behind for
\* another request to see, and a successful accept ends with the Follow and
\* without the request.
C1_AcceptAtomic ==
    [][\A p \in Procs :
         Steps(p, "accept") =>
            LET pair == PairOf(procs'[p])
            IN  /\ (pair \notin follows /\ pair \in follows') => pair \notin requests'
                /\ (Finishes(p, "accept") /\ procs'[p].error = "none") =>
                       (pair \in follows' /\ pair \notin requests')]_vars

\* C2: in every reachable state, for every ordered pair (A,B), at most one of
\* Follow(A,B) and FollowRequest(A,B) exists.
C2_FollowXorRequest == \A pair \in Pairs : ~(pair \in follows /\ pair \in requests)

\* C3: whenever createRequest(A,B) returns successfully, in the state right
\* after it FollowRequest(A,B) exists and Follow(A,B) does not.
C3_CreateRequestPost ==
    [][\A p \in Procs :
         (Finishes(p, "create_request") /\ procs'[p].status = HTTP_201_CREATED) =>
            LET pair == PairOf(procs'[p])
            IN  pair \in requests' /\ pair \notin follows']_vars

\* C4: createRequest(A,B) fails with AlreadyFollowing when its check finds
\* Follow(A,B), and with AlreadyRequested when its check finds
\* FollowRequest(A,B); a call that fails in either way creates and deletes no
\* row, and its response is informational (status 200), not an error status.
C4_CreateRequestFailures ==
    [][\A p \in Procs :
         Steps(p, "create_request") /\ procs'[p].actor = procs'[p].follower =>
            LET r == procs'[p]
                pair == PairOf(r)
            IN  /\ (procs[p].pc = "idle" /\ pair \in follows) =>
                       (r.pc = "done" /\ r.error = "AlreadyFollowing")
                /\ (procs[p].pc = "check_request" /\ pair \in requests) =>
                       (r.pc = "done" /\ r.error = "AlreadyRequested")
                /\ (r.pc = "done" /\ r.error = "AlreadyFollowing") => pair \in follows
                /\ (r.pc = "done" /\ r.error = "AlreadyRequested") => pair \in requests
                /\ (r.pc = "done" /\ r.error \in {"AlreadyFollowing", "AlreadyRequested"}) =>
                       /\ follows' = follows
                       /\ requests' = requests
                       /\ r.status = HTTP_200_OK]_vars

\* both failures have been returned to their callers
C4_Witness ==
    \E p, q \in Procs :
        /\ procs[p].op = "create_request" /\ procs[p].pc = "done"
        /\ procs[p].error = "AlreadyFollowing" /\ procs[p].status = HTTP_200_OK
        /\ PairOf(procs[p]) \in follows
        /\ procs[q].op = "create_request" /\ procs[q].pc = "done"
        /\ procs[q].error = "AlreadyRequested" /\ procs[q].status = HTTP_200_OK
        /\ PairOf(procs[q]) \in requests

\* C5: when two createRequest(A,B) calls for the same pair run concurrently from
\* state NONE, exactly one succeeds and the other fails with AlreadyRequested.
C5_DuplicateCreate ==
    \A p, q \in Procs :
        (/\ p # q
         /\ procs[p].op = "create_request" /\ procs[q].op = "create_request"
         /\ procs[p].pc = "done" /\ procs[q].pc = "done"
         /\ procs[p].actor = procs[p].follower /\ procs[q].actor = procs[q].follower
         /\ PairOf(procs[p]) = PairOf(procs[q]))
        => \/ procs[p].error = "none" /\ procs[q].error = "AlreadyRequested"
           \/ procs[q].error = "none" /\ procs[p].error = "AlreadyRequested"

\* the accept calls that found the pending request of `pair`
Accepting(pair) ==
    {p \in Procs : /\ procs[p].op = "accept"
                   /\ PairOf(procs[p]) = pair
                   /\ procs[p].error # "Http404"}

\* C6: when two (or more) accept calls on the same pending FollowRequest(A,B)
\* run concurrently, then once they all have returned Follow(A,B) exists,
\* FollowRequest(A,B) does not, and exactly one of the calls inserted the edge.
C6_DoubleAccept ==
    \A pair \in Pairs :
        (/\ Cardinality(Accepting(pair)) >= 2
         /\ \A p \in Accepting(pair) : procs[p].pc = "done")
        => /\ pair \in follows
           /\ pair \notin requests
           /\ Cardinality({p \in Accepting(pair) : procs[p].error = "none"}) = 1

\* two accept calls found the same pending request and both have returned
C6_Witness ==
    \E pair \in Pairs :
        /\ Cardinality(Accepting(pair)) >= 2
        /\ \A p \in Accepting(pair) : procs[p].pc = "done"
        /\ pair \in follows

\* C7: in every reachable state an authenticated actor U is allowed to retrieve
\* a post P iff U is P's author or the Follow edge (U, author of P) exists.
C7_PostRead ==
    \A u \in Users : \A q \in posts :
        PostViewSet_retrieve_allowed(u, q) <=> (u = q.author \/ <<u, q.author>> \in follows)

\* an author and a follower who may read, and an unrelated user who may not
C7_Witness ==
    \E q1, q2 \in posts : \E u, v \in Users :
        /\ PostViewSet_retrieve_allowed(q1.author, q1)
        /\ u # q1.author /\ <<u, q1.author>> \in follows
        /\ PostViewSet_retrieve_allowed(u, q1)
        /\ v # q2.author /\ <<v, q2.author>> \notin follows
        /\ ~PostViewSet_retrieve_allowed(v, q2)

\* C8: a pending request grants nothing: whenever FollowRequest(A,B) exists and
\* Follow(A,B) does not (A # B), A may not retrieve B's profile nor any post of
\* B, and no order of A's feed holds a post of B.
C8_PendingGrantsNothing ==
    \A a, b \in Users :
        (a # b /\ <<a, b>> \in requests /\ <<a, b>> \notin follows) =>
            /\ ~ExtendedUserViewSet_retrieve_allowed(a, b)
            /\ \A q \in posts : q.author = b =>
                  /\ ~PostViewSet_retrieve_allowed(a, q)
                  /\ q \notin FeedViewSet_get_queryset(a)
                  /\ \A s \in FeedViewSet_list(a) : \A i \in DOMAIN s : s[i] # q

\* A has a pending request to B, B has posted in the open window, and B sees
\* that post in B's own feed
C8_Witness ==
    \E a, b \in Users :
        /\ a # b /\ <<a, b>> \in requests /\ <<a, b>> \notin follows
        /\ \E q \in posts : q.author = b /\ q \in FeedViewSet_get_queryset(b)

\* the weekly window is open at instant t: it is Sunday at UTC+14 or at UTC-12
GateOpenAt(t) ==
    \/ _get_day_at(t, KIRIBATI_OFFSET) = SUNDAY
    \/ _get_day_at(t, IDLW_OFFSET) = SUNDAY

\* C9: post creation is denied (403) and inserts no post whenever the gate is
\* closed when the handler checks it, whoever the actor is; and every post row
\* that is inserted has the acting user as its author, whatever author the
\* client sent.
C9_GateAndAuthor ==
    [][\A p \in Procs :
         Steps(p, "post_create") =>
            /\ (/\ procs[p].pc = "is_sunday"
                /\ procs[p].kiribati_day # SUNDAY
                /\ ~GateOpenAt(now)) =>
                   /\ procs'[p].pc = "done"
                   /\ procs'[p].status = HTTP_403_FORBIDDEN
                   /\ posts' = posts
            /\ procs[p].pc \in {"save", "perform_create"} =>
                   \A q \in posts' \ posts : q.author = procs[p].actor]_vars

\* one call was denied at the closed gate, and another, whose client sent
\* somebody else as the author, has inserted its post
C9_Witness ==
    \E p, r \in Procs :
        /\ procs[p].op = "post_create" /\ procs[p].pc = "done"
        /\ procs[p].status = HTTP_403_FORBIDDEN
        /\ procs[r].op = "post_create" /\ procs[r].pc = "perform_create"
        /\ procs[r].follower # procs[r].actor
        /\ \E q \in posts : q.id = procs[r].post /\ q.author = procs[r].actor

\* C10: in every reachable state the creation timestamp of every stored post is
\* an instant at which the gate was open.
C10_PostsInsideWindow == \A q \in posts : GateOpenAt(q.datetime)

\* C11: a post can be deleted by its author and by nobody else: in every state
\* PostViewSet.destroy lets an actor through to the deletion of a post iff the
\* actor is its author, and in every step each stored post either stays as it
\* is (same author, content and creation timestamp) or is deleted by a destroy
\* call of its author.
C11_PostDeleteByAuthor ==
    /\ [](\A u \in Users : \A q \in posts :
            PostViewSet_destroy_allowed(u, q) <=> u = q.author)
    /\ [][\A q \in posts :
            q \notin posts' =>
               \E p \in Procs :
                   /\ procs[p].op = "post_destroy" /\ procs[p].pc = "post_delete"
                   /\ procs'[p].pc = "done"
                   /\ procs[p].post = q.id
                   /\ procs[p].actor = q.author]_vars

\* a follower of an author has been refused (403) the deletion of a post, and
\* the author has deleted a post
C11_Witness ==
    \E p, r \in Procs :
        /\ procs[p].op = "post_destroy" /\ procs[p].pc = "done"
        /\ procs[p].status = HTTP_204_NO_CONTENT
        /\ procs[r].op = "post_destroy" /\ procs[r].pc = "done"
        /\ procs[r].status = HTTP_403_FORBIDDEN
        /\ procs[r].actor # procs[p].actor
        /\ <<procs[r].actor, procs[p].actor>> \in follows

\* C12: in every reachable state an authenticated actor may retrieve a profile
\* iff the actor is that profile or the Follow edge (actor, target) exists, may
\* update (PUT) or delete it iff the actor is that profile, and an actor who is
\* neither the profile nor a follower of it is denied every action on it.
C12_ProfileAccess ==
    \A u, t \in Users :
        /\ ExtendedUserViewSet_allowed(u, "retrieve", t) <=> (u = t \/ <<u, t>> \in follows)
        /\ \A a \in {"update", "destroy"} : ExtendedUserViewSet_allowed(u, a, t) <=> u = t
        /\ (u # t /\ <<u, t>> \notin follows) =>
               \A a \in ProfileActions : ~ExtendedUserViewSet_allowed(u, a, t)

\* u follows t and t does not follow u: u may read t's profile but not change
\* it, t may not read u's, and each may update and delete its own
C12_Witness ==
    \E u, t \in Users :
        /\ u # t /\ <<u, t>> \in follows /\ <<t, u>> \notin follows
        /\ ExtendedUserViewSet_allowed(u, "retrieve", t)
        /\ ~ExtendedUserViewSet_allowed(u, "update", t)
        /\ ~ExtendedUserViewSet_allowed(u, "destroy", t)
        /\ ~ExtendedUserViewSet_allowed(t, "retrieve", u)
        /\ ExtendedUserViewSet_allowed(t, "update", t)
        /\ ExtendedUserViewSet_allowed(t, "destroy", t)
        /\ posts # {}

\* C13: only the followee of a FollowRequest can accept it and only its follower
\* or followee can retrieve or destroy it: the lookup of each action finds a
\* stored request exactly for those actors (and FollowRequestPermission agrees
\* with every lookup that succeeds), and an accept or destroy call of any other
\* user ends with 404 in a step that changes neither table.
C13_RequestAccess ==
    /\ [](\A u \in Users : \A r \in requests :
            /\ FollowRequestViewSet_allowed(u, "accept", r[1], r[2]) <=> u = r[2]
            /\ \A a \in {"retrieve", "destroy"} :
                  FollowRequestViewSet_allowed(u, a, r[1], r[2]) <=> (u = r[1] \/ u = r[2])
            /\ \A a \in {"retrieve", "destroy", "accept"} :
                  FollowRequestViewSet_allowed(u, a, r[1], r[2]) =>
                      FollowRequestPermission_has_object_permission(u, a, r))
    /\ [][\A p \in Procs :
            LET r == procs'[p]
                denied == /\ r.pc = "done" /\ r.status = HTTP_404_NOT_FOUND
                          /\ follows' = follows /\ requests' = requests
            IN  /\ (Steps(p, "accept") /\ r.actor # r.followee) => denied
                /\ (Steps(p, "destroy_request") /\ r.actor \notin {r.follower, r.followee})
                       => denied]_vars

\* a stored request that its follower tried to accept and that a user who is
\* neither its follower nor its followee tried to destroy: both got 404
C13_Witness ==
    \E p, q \in Procs :
        /\ procs[p].op = "accept" /\ procs[p].pc = "done"
        /\ procs[p].status = HTTP_404_NOT_FOUND
        /\ PairOf(procs[p]) \in requests
        /\ procs[p].actor = procs[p].follower /\ procs[p].actor # procs[p].followee
        /\ procs[q].op = "destroy_request" /\ procs[q].pc = "done"
        /\ procs[q].status = HTTP_404_NOT_FOUND
        /\ PairOf(procs[q]) \in requests
        /\ procs[q].actor \notin {procs[q].follower, procs[q].followee}

\* C14: a FollowRequest is created only with the acting user as its follower:
\* a create call of actor U for a pair (X,B) with X # U is refused (401) in a
\* step that changes neither table, and every FollowRequest row that appears
\* is inserted by a create call whose actor is the follower of the row.
C14_NoImpersonation ==
    [][/\ \A p \in Procs :
            (Steps(p, "create_request") /\ procs'[p].follower # procs'[p].actor) =>
                /\ procs'[p].pc = "done"
                /\ procs'[p].status = HTTP_401_UNAUTHORIZED
                /\ follows' = follows /\ requests' = requests
       /\ \A pair \in requests' \ requests :
            \E p \in Procs :
                /\ procs[p].op = "create_request" /\ procs[p].pc = "insert"
                /\ PairOf(procs[p]) = pair
                /\ procs[p].actor = pair[1]]_vars

\* U was refused a request in the name of X # U that X has not made, while a
\* request made by its own follower was created
C14_Witness ==
    \E p, q \in Procs :
        /\ procs[p].op = "create_request" /\ procs[p].pc = "done"
        /\ procs[p].status = HTTP_401_UNAUTHORIZED
        /\ procs[p].follower # procs[p].actor
        /\ PairOf(procs[p]) \notin requests \cup follows
        /\ procs[q].op = "create_request" /\ procs[q].pc = "done"
        /\ procs[q].status = HTTP_201_CREATED
        /\ procs[q].follower = procs[q].actor
        /\ PairOf(procs[q]) \in requests

\* C15 as claimed: only the follower of a Follow edge may delete it: a destroy
\* call on Follow(A,B) of any user other than A, the followee B included, ends
\* with 404 and every edge that disappears is deleted by a call of its follower.
C15_OnlyFollowerUnfollows ==
    [][/\ \A p \in Procs :
            (/\ procs[p].pc = "idle" /\ procs'[p].op \in Endpoints
             /\ PairOf(procs'[p]) \in follows
             /\ procs'[p].actor # procs'[p].follower) =>
                 /\ procs'[p].pc = "done"
                 /\ procs'[p].status = HTTP_404_NOT_FOUND
       /\ \A pair \in follows \ follows' :
            \E p \in Procs :
                /\ procs[p].op \in Endpoints /\ procs[p].pc = "follow_delete"
                /\ PairOf(procs[p]) = pair
                /\ procs[p].actor = pair[1]]_vars

\* C15, amended: unfollow deletes a Follow edge and only a party of the edge may
\* invoke it, the follower through the following endpoint and the followee
\* through the followers endpoint: a destroy call on Follow(A,B) of anybody
\* else (of B through `following`, of A through `followers`, of a third user
\* through either) ends with 404 in a step that leaves the table as it is, and
\* every edge that disappears is deleted by such a call of A or of B.
C15_OnlyPartiesUnfollow ==
    [][/\ \A p \in Procs :
            (/\ procs[p].pc = "idle" /\ procs'[p].op \in Endpoints
             /\ \/ procs'[p].op = "following" /\ procs'[p].actor # procs'[p].follower
                \/ procs'[p].op = "followers" /\ procs'[p].actor # procs'[p].followee) =>
                 /\ procs'[p].pc = "done"
                 /\ procs'[p].status = HTTP_404_NOT_FOUND
                 /\ follows' = follows
       /\ follows' \subseteq follows
       /\ \A pair \in follows \ follows' :
            \E p \in Procs :
                /\ procs[p].op \in Endpoints /\ procs[p].pc = "follow_delete"
                /\ PairOf(procs[p]) = pair
                /\ \/ procs[p].op = "following" /\ procs[p].actor = pair[1]
                   \/ procs[p].op = "followers" /\ procs[p].actor = pair[2]]_vars

\* the followee of a stored edge got 404 from the following endpoint, and a
\* follower has deleted an edge through it
C15_Witness ==
    \E p, q \in Procs :
        /\ procs[p].op = "following" /\ procs[p].pc = "done"
        /\ procs[p].status = HTTP_404_NOT_FOUND
        /\ PairOf(procs[p]) \in follows
        /\ procs[p].actor = procs[p].followee /\ procs[p].actor # procs[p].follower
        /\ procs[q].op = "following" /\ procs[q].pc = "done"
        /\ procs[q].status = HTTP_204_NO_CONTENT
        /\ procs[q].actor = procs[q].follower
        /\ PairOf(procs[q]) \notin follows

\* C16: a Follow edge (A,B) can be read or deleted by an actor iff the actor is
\* A or B: in every state some endpoint (following, followers) finds a stored
\* edge for an actor exactly when the actor is its follower or its followee
\* (A through `following`, B through `followers`, and FollowPermission agrees
\* with every lookup that succeeds), the lists of both endpoints hold only edges
\* of the actor, and every edge that disappears is deleted by a destroy call of
\* A or of B.
C16_EdgeAccess ==
    /\ [](\A u \in Users :
            /\ \A f \in follows :
                  /\ FollowViewSet_allowed("following", u, f[1], f[2]) <=> u = f[1]
                  /\ FollowViewSet_allowed("followers", u, f[1], f[2]) <=> u = f[2]
                  /\ (\E e \in Endpoints : FollowViewSet_allowed(e, u, f[1], f[2]))
                        <=> (u = f[1] \/ u = f[2])
                  /\ \A e \in Endpoints : \A a \in {"retrieve", "destroy"} :
                        FollowViewSet_allowed(e, u, f[1], f[2]) =>
                            FollowPermission_has_object_permission(u, a, f)
            /\ \A e \in Endpoints : \A f \in FollowViewSet_get_queryset(e, u) :
                  u = f[1] \/ u = f[2])
    /\ [][\A pair \in follows \ follows' :
            \E p \in Procs :
                /\ procs[p].op \in Endpoints /\ procs[p].pc = "follow_delete"
                /\ PairOf(procs[p]) = pair
                /\ procs[p].actor \in {pair[1], pair[2]}]_vars

\* a followee has removed a follower through the followers endpoint, and a
\* user who is neither follower nor followee of a stored edge got 404
C16_Witness ==
    \E p, q \in Procs :
        /\ procs[p].op = "followers" /\ procs[p].pc = "done"
        /\ procs[p].status = HTTP_204_NO_CONTENT
        /\ procs[p].actor = procs[p].followee /\ procs[p].actor # procs[p].follower
        /\ PairOf(procs[p]) \notin follows
        /\ procs[q].op \in Endpoints /\ procs[q].pc = "done"
        /\ procs[q].status = HTTP_404_NOT_FOUND
        /\ PairOf(procs[q]) \in follows
        /\ procs[q].actor \notin {procs[q].follower, procs[q].followee}

\* the UTC offsets of the local times of the Earth, in whole hours
UTCOffsets == IDLW_OFFSET .. KIRIBATI_OFFSET

\* C17: the gate is open whenever it is Sunday in any UTC offset: at every
\* instant at which the local weekday is Sunday at some offset between -12 and
\* +14 hours, is_sunday() is true.
C17_OpenWhenSundayAnywhere ==
    (\E utc_offset \in UTCOffsets : _get_day_at(now, utc_offset) = SUNDAY)
        => is_sunday_at(now)

\* C18: to_next_sunday() is the all-zero countdown exactly when is_sunday() is
\* true: at every instant the countdown is zero iff the gate is open, and a
\* countdown call answers zero when the is_sunday() it called found the gate
\* open and a non-zero countdown when it found the gate closed.
C18_ZeroIffOpen ==
    /\ [](is_zero(to_next_sunday(now)) <=> is_sunday_at(now))
    /\ [][\A p \in Procs :
            (Steps(p, "countdown") /\ procs'[p].pc = "done") =>
                /\ procs[p].pc = "is_sunday" =>
                      /\ is_sunday(procs[p].kiribati_day, _get_day_at(now, IDLW_OFFSET))
                      /\ is_zero(procs'[p].data)
                /\ procs[p].pc = "kiribati_now" => ~is_zero(procs'[p].data)]_vars

\* a countdown asked for in the last second before the window opens (closed
\* gate) was not zero, and the window has opened since
C18_Witness ==
    \E p \in Procs :
        /\ procs[p].op = "countdown" /\ procs[p].pc = "done"
        /\ procs[p].kiribati_now = SaturdayTenUTC - 1
        /\ ~is_zero(procs[p].data)
        /\ is_sunday_at(now) /\ is_zero(to_next_sunday(now))

\* seconds from instant t to the next local midnight that starts a Sunday at
\* UTC+14 (Sunday is day 6 of the week that starts on Monday)
UntilKiribatiSunday(t) ==
    LET local == t + KIRIBATI_OFFSET * SecondsPerHour + SecondsPerWeek
        left == (6 * SecondsPerDay + 2 * SecondsPerWeek - local) % SecondsPerWeek
    IN  IF left = 0 THEN SecondsPerWeek ELSE left

\* a number of seconds as whole days, hours and minutes, truncated
Truncated(seconds) ==
    <<seconds \div SecondsPerDay,
      (seconds % SecondsPerDay) \div SecondsPerHour,
      (seconds % SecondsPerHour) \div SecondsPerMinute>>

\* C19: at every instant at which the gate is closed, to_next_sunday() is the
\* time from now to the start (local midnight) of the next Sunday at UTC+14, in
\* days, hours and minutes, truncated.
C19_CountdownToSunday ==
    ~is_sunday_at(now) => to_next_sunday(now) = Truncated(UntilKiribatiSunday(now))

\* C20: at every instant last_sunday() is the local midnight at UTC+14 that
\* started the most recent Sunday there: it falls on a Sunday at UTC+14, at
\* 00:00:00, it is not later than now and less than a week before now.
C20_WindowStartIsSunday ==
    LET start == last_sunday(now)
        local == start + KIRIBATI_OFFSET * SecondsPerHour + SecondsPerWeek
    IN  /\ _get_day_at(start, KIRIBATI_OFFSET) = SUNDAY
        /\ local % SecondsPerDay = 0
        /\ start <= now
        /\ now - start < SecondsPerWeek


\* the local midnight at UTC+14 that started the most recent Sunday there, seen
\* from instant t (the window start of the specification)
WindowStart(t) ==
    LET local == t + KIRIBATI_OFFSET * SecondsPerHour + 2 * SecondsPerWeek
    IN  t - ((local - 6 * SecondsPerDay) % SecondsPerWeek)

\* the posts current_user may read: the user's own and those of followed users
Readable(current_user) ==
    {q \in posts : q.author = current_user \/ <<current_user, q.author>> \in follows}

\* C21: at every instant the feed of every user is exactly the posts the user
\* may read (own posts and posts of followed users) that were created at or
\* after the window start, the most recent Sunday midnight at UTC+14, and every
\* order in which it is returned is descending in the timestamp.
C21_FeedIsWindowOfReadable ==
    \A u \in Users :
        /\ FeedViewSet_get_queryset(u)
              = {q \in Readable(u) : q.datetime >= WindowStart(now)}
        /\ \A s \in FeedViewSet_list(u) :
              \A i, j \in DOMAIN s : i < j => s[i].datetime >= s[j].datetime


\* C26: as the clock advances, last_sunday() is never later than the current
\* instant and never moves backwards: from one instant to a later one the window
\* start stays or grows (so a post that left the feed because of the window does
\* not come back).
C26_WindowStartNeverGoesBack ==
    [][/\ last_sunday(now) <= now
       /\ last_sunday(now') <= now'
       /\ now <= now' => last_sunday(now) <= last_sunday(now')]_vars


\* the number of the weekly opening (from the start of Sunday at UTC+14 to the
\* end of Sunday at UTC-12) that an instant t of an open gate lies in
OpeningOf(t) ==
    (t - (6 * SecondsPerDay - KIRIBATI_OFFSET * SecondsPerHour) + 2 * SecondsPerWeek)
        \div SecondsPerWeek

\* C27: a stored post that was created with the gate open is, at every later
\* instant of the same weekly opening at which the gate is open, in the feed of
\* its author and in the feed of every user who follows the author.
C27_VisibleUntilWindowCloses ==
    \A q \in posts :
        (/\ is_sunday_at(q.datetime)
         /\ is_sunday_at(now)
         /\ q.datetime <= now
         /\ OpeningOf(q.datetime) = OpeningOf(now)) =>
            /\ q \in FeedViewSet_get_queryset(q.author)
            /\ \A u \in Users :
                  <<u, q.author>> \in follows => q \in FeedViewSet_get_queryset(u)


\* worker p answers 200 to B's accept of the request of A (A # B) in this
\* transition
AcceptedBy(p, a, b) ==
    /\ Finishes(p, "accept")
    /\ procs'[p].status = HTTP_200_OK
    /\ procs'[p].actor = b
    /\ PairOf(procs'[p]) = <<a, b>>

Deleted(p, a, b) ==
    /\ \/ Finishes(p, "destroy_request")
       \/ \E e \in Endpoints : Finishes(p, e)
    /\ procs'[p].status = HTTP_204_NO_CONTENT
    /\ PairOf(procs'[p]) = <<a, b>>

\* C25: with the requests served one after the other, once a pending
\* FollowRequest(A,B) has been rejected (deleted), and likewise once Follow(A,B)
\* has been unfollowed (deleted), no row exists for (A,B) and A may read neither
\* the posts nor the profile of B; and a createRequest(A,B) by A that finds no
\* row for (A,B) answers 201 and stores the request.
C25_BackToNone ==
    [][\A p \in Procs, a, b \in Users :
         /\ Deleted(p, a, b) =>
               /\ <<a, b>> \notin follows' \cup requests'
               /\ a # b =>
                     /\ ~ExtendedUserViewSet_retrieve_allowed(a, b)'
                     /\ \A q \in posts' :
                           q.author = b => ~PostViewSet_retrieve_allowed(a, q)'
         /\ (/\ Finishes(p, "create_request")
             /\ procs'[p].actor = a
             /\ PairOf(procs'[p]) = <<a, b>>
             /\ <<a, b>> \notin follows \cup requests) =>
               /\ procs'[p].status = HTTP_201_CREATED
               /\ <<a, b>> \in requests']_vars

\* B has a post; one worker has answered 204 to the unfollow of Follow(A,B),
\* and after it another has answered 201 to createRequest(A,B), which is pending
C25_Witness ==
    \E p, r \in Procs :
        /\ procs[r].op \in Endpoints /\ procs[r].pc = "done"
        /\ procs[r].status = HTTP_204_NO_CONTENT
        /\ procs[r].follower # procs[r].followee
        /\ procs[p].op = "create_request" /\ procs[p].pc = "done"
        /\ procs[p].status = HTTP_201_CREATED
        /\ PairOf(procs[p]) = PairOf(procs[r])
        /\ PairOf(procs[p]) \in requests \ follows
        /\ \E q \in posts : q.author = procs[p].followee


\* C24: a Follow edge is created only by the followee accepting a request: the
\* step that stores Follow(A,B) is the insert of an accept call made by B on
\* FollowRequest(A,B), and an accept call gets as far as that insert only if it
\* found FollowRequest(A,B) stored when it looked it up; no other step of any
\* handler adds a row to table Follow.
C24_FollowOnlyByAccept ==
    [][/\ \A pair \in follows' \ follows :
             \E p \in Procs :
                 /\ procs[p].op = "accept" /\ procs[p].pc = "accept_create"
                 /\ procs'[p] # procs[p]
                 /\ PairOf(procs[p]) = pair
                 /\ procs[p].actor = pair[2]
       /\ \A p \in Procs :
             (Steps(p, "accept") /\ procs'[p].pc = "accept_create") =>
                 /\ PairOf(procs'[p]) \in requests
                 /\ procs'[p].actor = procs'[p].followee]_vars

\* A has asked to follow B, B has accepted, and Follow(A,B) is stored
C24_Witness ==
    \E p, r \in Procs :
        /\ procs[r].op = "create_request" /\ procs[r].pc = "done"
        /\ procs[r].status = HTTP_201_CREATED
        /\ procs[r].follower # procs[r].followee
        /\ procs[p].op = "accept" /\ procs[p].pc = "done"
        /\ procs[p].status = HTTP_200_OK
        /\ procs[p].actor = procs[p].followee
        /\ PairOf(procs[p]) = PairOf(procs[r])
        /\ PairOf(procs[p]) \in follows


\* C23: the step that deletes profile P removes every Follow and FollowRequest
\* in which P is follower or followee, every post authored by P and the profile,
\* and leaves all other rows as they are; and in every reachable state the
\* follower and the followee of every Follow and FollowRequest and the author of
\* every post are stored profiles.
C23_ProfileDeleteCascades ==
    /\ [](/\ \A f \in follows \cup requests : {f[1], f[2]} \subseteq profiles
          /\ \A q \in posts : q.author \in profiles)
    /\ [][\A p \in Procs :
            (Steps(p, "profile_destroy") /\ procs[p].pc = "profile_delete") =>
               LET gone == procs[p].target
               IN  /\ follows' = {f \in follows : f[1] # gone /\ f[2] # gone}
                   /\ requests' = {f \in requests : f[1] # gone /\ f[2] # gone}
                   /\ posts' = {q \in posts : q.author # gone}
                   /\ profiles' = profiles \ {gone}]_vars

\* a user has deleted the own profile while a post of that user was being
\* created: the cascade has removed the saved post, the database has refused
\* to insert it again, and a row of the other user is still stored
C23_Witness ==
    \E p, r \in Procs :
        /\ procs[p].op = "profile_destroy" /\ procs[p].pc = "done"
        /\ procs[p].status = HTTP_204_NO_CONTENT
        /\ procs[p].target \notin profiles
        /\ follows \cup requests # {} \/ posts # {}
        /\ procs[r].op = "post_create" /\ procs[r].pc = "done"
        /\ procs[r].error = "IntegrityError"
        /\ procs[r].actor = procs[p].target

====
